---- MODULE Spec2Model ----
(***************************************************************************)
(* Notification scheduling and delivery engine of praybot-backend          *)
(* (src/index.js): the TTL caches over the two JSON stores, the daily      *)
(* queue builder, the per-subscriber rescheduler, the 30-second dispatcher *)
(* tick and the ledger of sent notifications.                              *)
(*                                                                         *)
(* Time is counted in units of 30 seconds since midnight of day 0 (the     *)
(* period of the dispatcher's cron expression).  A time of day "HH:MM" is  *)
(* the number of minutes since midnight; for zero-padded strings the       *)
(* string comparisons of the code are the integer comparisons used here.   *)
(*                                                                         *)
(* Every async function is a stack frame; a task (one cron callback, one   *)
(* bot handler) is a stack of frames suspended at one I/O call.  An action *)
(* of the model is the completion of that I/O call together with all the   *)
(* code that then runs until the task issues its next I/O call or ends: a  *)
(* call that finds its cache fresh returns without I/O and is part of the  *)
(* same step.                                                              *)
(***************************************************************************)
EXTENDS Integers, Sequences, FiniteSets, TLC

(* ------------------------------ constants ------------------------------ *)

\* CACHE_TTL = 5 * 60 * 1000 ms, in units of 30 s
CACHE_TTL == 10
\* DEFAULT_SETTINGS.globalReminderMinutes
DEFAULT_REMINDER == 5
\* 24 * 60 * 60 * 1000 ms of cleanupOldNotifications, in units of 30 s
ONE_DAY == 2880
\* minutes in a day: Date.setHours(h, m - minutes) wraps over it
DAY_MINUTES == 1440
\* minute of cron.schedule('5 0 * * *', buildDailyQueue)
BUILD_MINUTE == 5
\* now.getMinutes() % 10 of the cleanup cadence
CLEANUP_EVERY == 10
\* Math.max(1, Math.min(60, ...)) and the manual range check
MIN_LEAD == 1
MAX_LEAD == 60
\* value of an absent property (todaysPrayers[key], settings.globalReminderMinutes)
Undefined == -1
\* a chatId that is no chat: the object wrapped by the migration's map
GarbageId == 0

prayerOrder == <<"fajr", "dhuhr", "asr", "maghrib", "isha">>

(* ------------------------------- bounds -------------------------------- *)

\* bot handler invocations (lead-time changes) in one run
MaxOps == 1
\* replacements of the schedule file through /api/update_times in one run
MaxUpdates == 1
\* 30-second boundaries a run goes through
MaxAdvances == 4
\* I/O calls that fail in one run (read errors, write errors)
MaxFaults == 2
\* subscriber objects alive at once (cache, arrays held by suspended calls)
MaxObjs == 6
\* bot handler invocations in a run with /start and /stop commands
MaxCommands == 2

TickSlots == <<"tick1", "tick2">>
HandlerSlots == <<"h1", "h2">>
\* "build" is the daily cron's callback, "boot" the timeout's of the startup
Tasks == {"tick1", "tick2", "h1", "h2", "build", "boot"}

(* ------------------------------ sequences ------------------------------ *)

Range(q) == {q[i] : i \in 1..Len(q)}

\* index of the first element satisfying Test, 0 when there is none
FindIndex(q, Test(_)) ==
    IF \E i \in 1..Len(q) : Test(q[i])
    THEN CHOOSE i \in 1..Len(q) : Test(q[i]) /\ \A j \in 1..(i - 1) : ~Test(q[j])
    ELSE 0

(* ------------------------------ the clock ------------------------------ *)

DateOf(t) == t \div ONE_DAY
TimeOf(t) == (t % ONE_DAY) \div 2
SecondsBelow30(t) == t % 2 = 0
MinuteOfHour(t) == TimeOf(t) % 60

(* --------------------------- subtractMinutes --------------------------- *)

\* setHours(hours, mins - minutes) on today's date, read back as HH:MM:
\* a negative minute count borrows from the hours and from the day
subtractMinutes(time, minutes) == (time - minutes) % DAY_MINUTES

(* ------------------------- the two JSON stores ------------------------- *)

\* An entry of subscribers.json: a bare number (legacy format), an object
\* with a chatId (with or without settings; settings.globalReminderMinutes
\* may be absent), or anything else (null, an object without chatId).
NumEntry(c) == [kind |-> "num", chatId |-> c, hasSettings |-> FALSE, mins |-> Undefined]
ObjEntry(c, m) == [kind |-> "obj", chatId |-> c, hasSettings |-> TRUE, mins |-> m]
BareObjEntry(c) == [kind |-> "obj", chatId |-> c, hasSettings |-> FALSE, mins |-> Undefined]
BadEntry == [kind |-> "bad", chatId |-> Undefined, hasSettings |-> FALSE, mins |-> Undefined]

\* A store file: absent (ENOENT), unparseable (SyntaxError), or a JSON array.
Absent == [state |-> "ENOENT", data |-> <<>>]
Corrupt == [state |-> "corrupt", data |-> <<>>]
File(data) == [state |-> "ok", data |-> data]

\* An entry of prayer_times.json: a date and the times of the occasions it defines.
Day(d, times) == [date |-> d, times |-> times]

\* prayerTimes.find(p => p.date === currentDate): <<>> when there is none
FindDay(prayerTimes, currentDate) ==
    LET i == FindIndex(prayerTimes, LAMBDA p : p.date = currentDate)
    IN  IF i = 0 THEN <<>> ELSE <<prayerTimes[i]>>

(* ------------------------------ work items ----------------------------- *)

\* `${currentDate}:${prayerKey}:${chatId}:${offset}`
DedupKey(date, prayerKey, chatId, offset) ==
    [date |-> date, prayer |-> prayerKey, chatId |-> chatId, offset |-> offset]

\* The message text is a function of the key and of the occasion's time and
\* is not part of the model.
Item(chatId, sendAt, key) == [chatId |-> chatId, sendAt |-> sendAt, dedupKey |-> key]

\* !item.dedupKey.endsWith(':0')
IsReminder(item) == item.dedupKey.offset # 0

(* -------------------------------- state -------------------------------- *)

VARIABLES
    now,                        \* the clock, in units of 30 s
    subsFile,                   \* subscribers.json
    prayFile,                   \* prayer_times.json
    heap,                       \* the subscriber objects in memory, by identity
    subscribersCache,           \* [present, val]: null, or an array of objects
    subscribersCacheTimestamp,
    prayerTimesCache,           \* [present, val]: null, or the parsed schedule
    prayerCacheTimestamp,
    notificationQueue,
    sentNotifications,          \* the Map dedupKey -> Date.now() of the send
    stacks,                     \* per task, its suspended calls (innermost last)
    startup,                    \* 0 once setTimeout(buildDailyQueue) has fired, else
                                \* 2 less the boundaries passed since the start
    ops,                        \* handler invocations so far
    updates,                    \* schedule replacements so far
    faults,                     \* failed I/O calls so far
    advances,                   \* 30-second boundaries so far
    delivered,                  \* history: keys the sink accepted
    scheduled,                  \* history: items a build left with sendAt still ahead
    attempted,                  \* history: keys a tick came to (sink call or skip)
    saved,                      \* history: what the last successful write wrote
    removals,                   \* history: the removals of chats that have not
                                \* sent /start since
    lastBuild,                  \* history: the last build, while nothing else wrote the queue
    ev                          \* history: what the last step did, in order

vars == <<now, subsFile, prayFile, heap, subscribersCache, subscribersCacheTimestamp,
          prayerTimesCache, prayerCacheTimestamp, notificationQueue, sentNotifications,
          stacks, startup, ops, updates, faults, advances, delivered, scheduled,
          attempted, saved, removals, lastBuild, ev>>

\* The state as one record, so that the code of a step composes.
Cur ==
    [now |-> now, subsFile |-> subsFile, prayFile |-> prayFile, heap |-> heap,
     subscribersCache |-> subscribersCache,
     subscribersCacheTimestamp |-> subscribersCacheTimestamp,
     prayerTimesCache |-> prayerTimesCache,
     prayerCacheTimestamp |-> prayerCacheTimestamp,
     notificationQueue |-> notificationQueue, sentNotifications |-> sentNotifications,
     stacks |-> stacks, delivered |-> delivered, scheduled |-> scheduled,
     attempted |-> attempted, saved |-> saved, removals |-> removals,
     lastBuild |-> lastBuild,
     ev |-> <<>>, oom |-> FALSE, own |-> FALSE]

NoCache == [present |-> FALSE, val |-> <<>>]
Cached(v) == [present |-> TRUE, val |-> v]

Emit(s, e) == [s EXCEPT !.ev = Append(@, e)]

\* stack frames
Top(s, t) == s.stacks[t][Len(s.stacks[t])]
Push(s, t, f) == [s EXCEPT !.stacks[t] = Append(@, f)]
Pop(s, t) == [s EXCEPT !.stacks[t] = SubSeq(@, 1, Len(@) - 1)]
SetTop(s, t, f) == [s EXCEPT !.stacks[t][Len(s.stacks[t])] = f]
Idle(s, t) == s.stacks[t] = <<>>

\* n new objects: the identities not in use, lowest first
RECURSIVE FreeIds(_, _)
FreeIds(used, n) ==
    IF n = 0 \/ (1..MaxObjs) \subseteq used THEN <<>>
    ELSE LET o == CHOOSE x \in (1..MaxObjs) \ used : \A y \in (1..MaxObjs) \ used : x <= y
         IN  <<o>> \o FreeIds(used \cup {o}, n - 1)

\* allocates one object per record of objs; returns the state and the array
Alloc(s, objs) ==
    LET ids == FreeIds(DOMAIN s.heap, Len(objs))
        full == Len(ids) < Len(objs)
        h == [o \in DOMAIN s.heap \cup Range(ids) |->
                 IF o \in DOMAIN s.heap THEN s.heap[o]
                 ELSE objs[CHOOSE i \in 1..Len(ids) : ids[i] = o]]
    IN  [st |-> [s EXCEPT !.heap = h, !.oom = s.oom \/ full], arr |-> ids]

\* JSON.stringify(validSubscribers): the objects as they are at the call
Stringify(s, arr) ==
    [i \in 1..Len(arr) |->
        [kind |-> "obj", chatId |-> s.heap[arr[i]].chatId, hasSettings |-> TRUE,
         mins |-> s.heap[arr[i]].mins]]

\* a suspended call: the function, the await it is at, and its locals
Frame(fn, at) ==
    [fn |-> fn, at |-> at, arr |-> <<>>, content |-> <<>>, chat |-> 0, t0 |-> 0,
     date |-> 0, cur |-> 0, mins |-> 0, arg |-> 0, tp |-> <<>>, due |-> <<>>,
     i |-> 0, rejected |-> {}, prior |-> <<>>, seen |-> Absent]

RECURSIVE Resume(_, _, _)
RECURSIVE Throw(_, _)

\* return v to the caller of the innermost call
Return(s, t, v) == Resume(Pop(s, t), t, v)

(* ------------------------------ the caches ------------------------------ *)

\* a cache that is still served when its age is exactly the TTL
CacheFreshInclusive(cache, timestamp, time) ==
    cache.present /\ time - timestamp <= CACHE_TTL

\* cache && (now - timestamp < CACHE_TTL)
CacheFresh(cache, timestamp, time) ==
    cache.present /\ time - timestamp < CACHE_TTL

\* what a call of a loader found and did: served from the cache, or read
LoadEvent(store, cache, timestamp, time, read) ==
    [type |-> "load", store |-> store, present |-> cache.present,
     age |-> time - timestamp, cached |-> cache.val, read |-> read]

\* a loader throws the error of its read again
LoadFailed(s, t, store) == Emit(s, [type |-> "loadFailed", task |-> t, store |-> store])

(* ------------------- saveSubscribers, removeSubscriber ------------------ *)

\* saveSubscribers, to its await of writeFile
saveSubscribers(s, t, subscribers) ==
    LET validSubscribers == SelectSeq(subscribers, LAMBDA o : s.heap[o].chatId # Undefined)
    IN  Push(s, t, [Frame("saveSubscribers", "writeFile") EXCEPT
                        !.arr = validSubscribers,
                        !.content = Stringify(s, validSubscribers)])

\* saveSubscribers, from the end of writeFile: the cache is updated after a
\* successful write; a failed write is logged and swallowed
saveSubscribersWritten(s, t, f, ok) ==
    LET s1 == IF ok
              THEN [s EXCEPT !.subsFile = File(f.content),
                             !.subscribersCache = Cached(f.arr),
                             !.subscribersCacheTimestamp = s.now,
                             !.saved = <<f.content>>]
              ELSE s
    IN  Return(Emit(s1, [type |-> "saved", task |-> t, ok |-> ok,
                         content |-> f.content]), t, <<>>)

(* ------------------------ loadSubscribersCache ------------------------- *)

\* the migration and the integrity check of a parsed subscribers.json
Normalize(data) ==
    LET legacy == Len(data) > 0 /\ data[1].kind = "num"
        subscribers ==
            IF legacy
            THEN [i \in 1..Len(data) |->
                    [kind |-> "obj",
                     chatId |-> IF data[i].kind = "num" THEN data[i].chatId ELSE GarbageId,
                     hasSettings |-> TRUE, mins |-> DEFAULT_REMINDER]]
            ELSE data
        kept == SelectSeq(subscribers, LAMBDA e : e.kind = "obj")
        cleanSubscribers ==
            [i \in 1..Len(kept) |->
                IF kept[i].hasSettings THEN [chatId |-> kept[i].chatId, mins |-> kept[i].mins]
                ELSE [chatId |-> kept[i].chatId, mins |-> DEFAULT_REMINDER]]
    IN  [objs |-> cleanSubscribers,
         needsSave |-> \/ legacy
                       \/ \E i \in 1..Len(kept) : ~kept[i].hasSettings
                       \/ Len(kept) # Len(subscribers)]

\* loadSubscribersCache, to its return (fresh cache) or its await of readFile
loadSubscribersCache(s, t) ==
    IF CacheFresh(s.subscribersCache, s.subscribersCacheTimestamp, s.now)
    THEN Resume(Emit([s EXCEPT !.own = FALSE],
                     LoadEvent("subscribers", s.subscribersCache,
                               s.subscribersCacheTimestamp, s.now, FALSE)),
                t, s.subscribersCache.val)
    ELSE Push(Emit(s, LoadEvent("subscribers", s.subscribersCache,
                                s.subscribersCacheTimestamp, s.now, TRUE)),
              t, [Frame("loadSubscribersCache", "readFile") EXCEPT
                      !.t0 = s.now, !.seen = s.subsFile])

\* what a load that read the store returns: the array read, the array
\* returned, and the store at the return
LoadedEvent(s, f, arr) ==
    [type |-> "loaded", t0 |-> f.t0, data |-> f.seen.data,
     returned |-> [i \in 1..Len(arr) |-> s.heap[arr[i]]], file |-> s.subsFile]

\* loadSubscribersCache, from the end of readFile; f.seen is what was read
loadSubscribersRead(s, t, f, fault) ==
    IF fault THEN Throw(Pop(LoadFailed(s, t, "subscribers"), t), t)
    ELSE IF f.seen.state # "ok"
    THEN saveSubscribers(SetTop(s, t, [f EXCEPT !.at = "saveEmpty"]), t, <<>>)
    ELSE LET n == Normalize(f.seen.data)
             a == Alloc(s, n.objs)
         IN  IF n.needsSave
             THEN saveSubscribers(
                      SetTop(a.st, t, [f EXCEPT !.at = "saveClean", !.arr = a.arr]),
                      t, a.arr)
             ELSE Return(Emit([a.st EXCEPT !.subscribersCache = Cached(a.arr),
                                           !.subscribersCacheTimestamp = f.t0],
                              LoadedEvent(a.st, f, a.arr)), t, a.arr)

\* loadSubscribersCache, from the end of the saveSubscribers it awaited
loadSubscribersSaved(s, t, f) ==
    IF f.at = "saveEmpty" THEN Return([s EXCEPT !.own = TRUE], t, <<>>)
    ELSE Return(Emit([s EXCEPT !.subscribersCache = Cached(f.arr),
                               !.subscribersCacheTimestamp = f.t0],
                     LoadedEvent(s, f, f.arr)), t, f.arr)

(* ------------------------ loadPrayerTimesCache ------------------------- *)

loadPrayerTimesCache(s, t) ==
    IF CacheFresh(s.prayerTimesCache, s.prayerCacheTimestamp, s.now)
    THEN Resume(Emit(s, LoadEvent("prayerTimes", s.prayerTimesCache,
                                  s.prayerCacheTimestamp, s.now, FALSE)),
                t, s.prayerTimesCache.val)
    ELSE Push(Emit(s, LoadEvent("prayerTimes", s.prayerTimesCache,
                                s.prayerCacheTimestamp, s.now, TRUE)),
              t, [Frame("loadPrayerTimesCache", "readFile") EXCEPT !.t0 = s.now])

\* from the end of readFile: ENOENT gives [] and leaves the cache alone, any
\* other error (a SyntaxError of JSON.parse too) is thrown again
loadPrayerTimesRead(s, t, f, fault) ==
    IF fault \/ s.prayFile.state = "corrupt"
    THEN Throw(Pop(LoadFailed(s, t, "prayerTimes"), t), t)
    ELSE IF s.prayFile.state = "ENOENT" THEN Return(s, t, <<>>)
    ELSE Return([s EXCEPT !.prayerTimesCache = Cached(s.prayFile.data),
                          !.prayerCacheTimestamp = f.t0], t, s.prayFile.data)

(* --------------------------- removeSubscriber -------------------------- *)

removeSubscriber(s, t, chatId) ==
    loadSubscribersCache(
        Push(s, t, [Frame("removeSubscriber", "load") EXCEPT !.chat = chatId]), t)

\* a removal that returned true: the chat, the caller ("stop" or "tick"),
\* and whether subscribers.json is without the chat at the return
Removal(s, t, chatId) ==
    [chat |-> chatId, by |-> s.stacks[t][Len(s.stacks[t]) - 1].fn,
     stored |-> /\ s.subsFile.state = "ok"
                /\ \A i \in 1..Len(s.subsFile.data) : s.subsFile.data[i].chatId # chatId]

removeSubscriberCont(s, t, f, v) ==
    IF f.at = "load"
    THEN LET updatedSubscribers == SelectSeq(v, LAMBDA o : s.heap[o].chatId # f.chat)
         IN  IF Len(updatedSubscribers) < Len(v)
             THEN saveSubscribers(SetTop(s, t, [f EXCEPT !.at = "save"]), t,
                                  updatedSubscribers)
             ELSE Return(s, t, FALSE)
    ELSE Return([s EXCEPT !.removals = @ \cup {Removal(s, t, f.chat)}], t, TRUE)

(* ---------------------------- buildDailyQueue --------------------------- *)

RECURSIVE Flatten(_)
Flatten(qs) == IF qs = <<>> THEN <<>> ELSE Head(qs) \o Flatten(Tail(qs))

\* a write of the queue by the rescheduler or the dispatcher
WithQueue(s, q) == [s EXCEPT !.notificationQueue = q, !.lastBuild = <<>>]

\* (settings && settings.globalReminderMinutes) ? ... : DEFAULT_SETTINGS...
BuildReminderMinutes(o) ==
    IF o.mins # Undefined /\ o.mins # 0 THEN o.mins ELSE DEFAULT_REMINDER

\* the body of the inner loop: the items of one subscriber and one occasion
BuildItems(currentDate, chatId, reminderMinutes, prayerKey, prayerTime) ==
    <<Item(chatId, prayerTime, DedupKey(currentDate, prayerKey, chatId, 0))>> \o
    (IF reminderMinutes > 0
     THEN <<Item(chatId, subtractMinutes(prayerTime, reminderMinutes),
                 DedupKey(currentDate, prayerKey, chatId, reminderMinutes))>>
     ELSE <<>>)

\* newQueue after the two loops over the objects subs
BuildQueue(subs, currentDate, todaysPrayers) ==
    Flatten([i \in 1..Len(subs) |->
        Flatten([k \in 1..Len(prayerOrder) |->
            BuildItems(currentDate, subs[i].chatId, BuildReminderMinutes(subs[i]),
                       prayerOrder[k], todaysPrayers[prayerOrder[k]])])])

\* subtractMinutes(undefined, m): time.split is a TypeError
BuildThrows(subs, todaysPrayers) ==
    \E i \in 1..Len(subs), k \in 1..Len(prayerOrder) :
        /\ todaysPrayers[prayerOrder[k]] = Undefined
        /\ BuildReminderMinutes(subs[i]) > 0

\* a builder that merges into the queue instead of replacing it
BuildAssignMerge(queue, newQueue) == queue \o newQueue

\* notificationQueue = newQueue
BuildAssign(queue, newQueue) == newQueue

\* the end of a build, with what it read and what it left
BuildEnd(s, f, outcome, subs, q) ==
    LET run == [outcome |-> outcome, date |-> f.date, tp |-> f.tp, subs |-> subs,
                prior |-> s.notificationQueue, queue |-> q]
        ahead == IF outcome = "ok"
                 THEN {x \in Range(q) : x.dedupKey.date = DateOf(s.now)
                                        /\ x.sendAt > TimeOf(s.now)}
                 ELSE {}
    IN  Emit([s EXCEPT !.notificationQueue = q, !.lastBuild = <<run>>,
                       !.scheduled = @ \cup ahead],
             [type |-> "built", run |-> run, before |-> s.lastBuild])

buildDailyQueue(s, t) ==
    loadPrayerTimesCache(
        Push(s, t, [Frame("buildDailyQueue", "loadPrayerTimes") EXCEPT
                        !.date = DateOf(s.now)]), t)

buildDailyQueueCont(s, t, f, v) ==
    IF f.at = "loadPrayerTimes"
    THEN LET todaysPrayers == FindDay(v, f.date)
         IN  IF todaysPrayers = <<>>
             THEN Return(BuildEnd(s, f, "noSchedule", <<>>, <<>>), t, <<>>)
             ELSE loadSubscribersCache(
                      SetTop(s, t, [f EXCEPT !.at = "loadSubscribers",
                                             !.tp = todaysPrayers[1].times]), t)
    ELSE LET subs == [i \in 1..Len(v) |-> s.heap[v[i]]]
         IN  IF BuildThrows(subs, f.tp)
             THEN Throw(Pop(BuildEnd(s, f, "threw", subs, s.notificationQueue), t), t)
             ELSE Return(BuildEnd(s, f, "ok", subs,
                                  BuildAssign(s.notificationQueue,
                                              BuildQueue(subs, f.date, f.tp))), t, <<>>)

(* ---------------------- rescheduleUserNotifications --------------------- *)

\* a filter that drops the user's upcoming at-occasion items too
ReschedKeepsPast(item, chatId, currentTime) ==
    ~(item.chatId = chatId /\ item.sendAt > currentTime)

\* step 1: the filter that drops the user's upcoming reminders
ReschedKeeps(item, chatId, currentTime) ==
    ~(item.chatId = chatId /\ IsReminder(item) /\ item.sendAt > currentTime)

\* a rescheduler that does not test whether the new reminder is still ahead
ReschedItemsUnchecked(currentDate, chatId, newReminderMinutes, currentTime, prayerKey, prayerTime) ==
    IF prayerTime > currentTime /\ newReminderMinutes > 0
    THEN <<Item(chatId, subtractMinutes(prayerTime, newReminderMinutes),
                DedupKey(currentDate, prayerKey, chatId, newReminderMinutes))>>
    ELSE <<>>

\* step 2, one occasion: the reminder pushed for it, if any
ReschedItems(currentDate, chatId, newReminderMinutes, currentTime, prayerKey, prayerTime) ==
    IF /\ prayerTime > currentTime
       /\ newReminderMinutes > 0
       /\ subtractMinutes(prayerTime, newReminderMinutes) > currentTime
    THEN <<Item(chatId, subtractMinutes(prayerTime, newReminderMinutes),
                DedupKey(currentDate, prayerKey, chatId, newReminderMinutes))>>
    ELSE <<>>

rescheduleUserNotifications(s, t, chatId) ==
    loadSubscribersCache(
        Push(s, t, [Frame("rescheduleUserNotifications", "loadSubscribers") EXCEPT
                        !.chat = chatId]), t)

rescheduleCont(s, t, f, v) ==
    IF f.at = "loadSubscribers"
    THEN LET u == FindIndex(v, LAMBDA o : s.heap[o].chatId = f.chat)
         IN  IF u = 0 THEN Return(s, t, <<>>)
             ELSE LET currentTime == TimeOf(s.now)
                      kept == SelectSeq(s.notificationQueue,
                                  LAMBDA item : ReschedKeeps(item, f.chat, currentTime))
                      g == [f EXCEPT !.at = "loadPrayerTimes", !.date = DateOf(s.now),
                                     !.cur = currentTime, !.mins = s.heap[v[u]].mins,
                                     !.prior = s.notificationQueue]
                      e == [type |-> "filtered", chat |-> f.chat, cur |-> currentTime,
                            before |-> s.notificationQueue, after |-> kept]
                  IN  loadPrayerTimesCache(SetTop(Emit(WithQueue(s, kept), e), t, g), t)
    ELSE LET todaysPrayers == FindDay(v, f.date)
         IN  IF todaysPrayers = <<>>
             THEN Return(Emit(s, [type |-> "rescheduled", chat |-> f.chat,
                                  mins |-> f.mins, cur |-> f.cur, date |-> f.date,
                                  found |-> FALSE, tp |-> <<>>, prior |-> f.prior,
                                  before |-> s.notificationQueue,
                                  after |-> s.notificationQueue]), t, <<>>)
             ELSE LET tp == todaysPrayers[1].times
                      added == Flatten([k \in 1..Len(prayerOrder) |->
                                   ReschedItems(f.date, f.chat, f.mins, f.cur,
                                                prayerOrder[k], tp[prayerOrder[k]])])
                  IN  Return(Emit(WithQueue(s, s.notificationQueue \o added),
                                  [type |-> "rescheduled", chat |-> f.chat,
                                   mins |-> f.mins, cur |-> f.cur, date |-> f.date,
                                   found |-> TRUE, tp |-> tp, prior |-> f.prior,
                                   before |-> s.notificationQueue,
                                   after |-> s.notificationQueue \o added]), t, <<>>)

(* ------------------- the handlers that change a lead time ---------------- *)

Clamp(n) == IF n < MIN_LEAD THEN MIN_LEAD ELSE IF n > MAX_LEAD THEN MAX_LEAD ELSE n

\* callback_query 'reminder_adjust_<n>' (arg = n) and the message handler
\* for a manual value (arg = the value, already checked to be in 1..60)
handlerStart(s, t, fn, chatId, arg) ==
    loadSubscribersCache(
        Push(s, t, [Frame(fn, "load") EXCEPT !.chat = chatId, !.arg = arg]), t)

handlerCont(s, t, f, v) ==
    IF f.at = "load"
    THEN LET u == FindIndex(v, LAMBDA o : s.heap[o].chatId = f.chat)
         IN  IF u = 0 THEN Return(s, t, <<>>)
             ELSE LET m == s.heap[v[u]].mins
                      currentMinutes == IF m # Undefined /\ m # 0 THEN m
                                        ELSE DEFAULT_REMINDER
                      newMinutes == IF f.fn = "reminder_adjust"
                                    THEN Clamp(currentMinutes + f.arg) ELSE f.arg
                  IN  IF f.fn = "reminder_adjust" /\ newMinutes = currentMinutes
                      THEN Return(s, t, <<>>)
                      ELSE saveSubscribers(
                               SetTop([s EXCEPT !.heap[v[u]].mins = newMinutes], t,
                                      [f EXCEPT !.at = "save", !.mins = newMinutes]),
                               t, v)
    ELSE IF f.at = "save"
    THEN rescheduleUserNotifications(SetTop(s, t, [f EXCEPT !.at = "resched"]), t, f.chat)
    ELSE Return(s, t, <<>>)

(* ------------------------------ /start, /stop --------------------------- *)

\* bot.onText(/\/stop/) and bot.onText(/\/start/), to their first await; a
\* chat that sends /start is from then on no removed chat
commandStart(s, t, fn, chatId) ==
    IF fn = "stop"
    THEN removeSubscriber(Push(s, t, [Frame("stop", "remove") EXCEPT !.chat = chatId]),
                          t, chatId)
    ELSE loadSubscribersCache(
             Push([s EXCEPT !.removals = {r \in @ : r.chat # chatId}], t,
                  [Frame("start", "load") EXCEPT !.chat = chatId]), t)

\* /start: subscribers.push(newSubscriber) on the array the load returned,
\* which is the array the cache holds unless the load has just created the file
startPush(s, t, f, v) ==
    LET a == Alloc(s, <<[chatId |-> f.chat, mins |-> DEFAULT_REMINDER]>>)
        subscribers == v \o a.arr
        s1 == IF s.own THEN a.st
              ELSE [a.st EXCEPT !.subscribersCache.val = subscribers]
    IN  saveSubscribers(SetTop(s1, t, [f EXCEPT !.at = "save", !.arr = subscribers]),
                        t, subscribers)

commandCont(s, t, f, v) ==
    IF f.fn = "stop"
    THEN Return(Emit(s, [type |-> "stopped", chat |-> f.chat, removed |-> v]), t, <<>>)
    ELSE IF f.at = "load"
    THEN IF \E i \in 1..Len(v) : s.heap[v[i]].chatId = f.chat
         THEN Return(s, t, <<>>)
         ELSE startPush(s, t, f, v)
    ELSE Return(Emit(s, [type |-> "started", chat |-> f.chat]), t, <<>>)

(* ------------------------- the dispatcher tick ------------------------- *)

\* notificationQueue.filter(item => item.sendAt === currentTime)
TickDue(queue, currentTime) == SelectSeq(queue, LAMBDA item : item.sendAt = currentTime)

\* a dispatcher that does not consult the ledger
AlreadySentNever(sent, key) == FALSE

\* sentNotifications.has(item.dedupKey)
AlreadySent(sent, key) == key \in DOMAIN sent

\* sentNotifications.set(key, Date.now())
LedgerSet(sent, key, time) ==
    [k \in DOMAIN sent \cup {key} |-> IF k = key THEN time ELSE sent[k]]

\* a purge that deletes the entries that are exactly 24 h old too
cleanupAtOneDay(sent, time) ==
    [k \in {x \in DOMAIN sent : ~(sent[x] <= time - ONE_DAY)} |-> sent[k]]

\* cleanupOldNotifications: entries with timestamp < now - 24 h are deleted
cleanupOldNotifications(sent, time) ==
    [k \in {x \in DOMAIN sent : ~(sent[x] < time - ONE_DAY)} |-> sent[k]]

\* a cadence that is met only by a tick that starts in a second half-minute
CleanupIsDueLate(t0) == MinuteOfHour(t0) % CLEANUP_EVERY = 0 /\ ~SecondsBelow30(t0)

\* now.getMinutes() % 10 === 0 && now.getSeconds() < 30
CleanupIsDue(t0) == MinuteOfHour(t0) % CLEANUP_EVERY = 0 /\ SecondsBelow30(t0)

\* after the loop: the queue cleanup, then the ledger cleanup
TickEnd(s, t, f) ==
    LET s1 == IF Len(f.due) > 0
              THEN WithQueue(s, SelectSeq(s.notificationQueue,
                                          LAMBDA item : item.sendAt # f.cur))
              ELSE s
        s2 == IF CleanupIsDue(f.t0)
              THEN [s1 EXCEPT !.sentNotifications = cleanupOldNotifications(@, s.now)]
              ELSE s1
    IN  Return(Emit(s2, [type |-> "tickEnd", task |-> t, cur |-> f.cur,
                         due |-> f.due, rejected |-> f.rejected, caught |-> FALSE,
                         done |-> Len(f.due),
                         cleaned |-> Cardinality(DOMAIN s.sentNotifications)
                                     - Cardinality(DOMAIN s2.sentNotifications),
                         purged |-> CleanupIsDue(f.t0), at |-> s.now,
                         ledger |-> s.sentNotifications]),
               t, <<>>)

\* the for loop, from item f.i to the next await or to the end of the tick
RECURSIVE TickLoop(_, _)
TickLoop(s, t) ==
    LET f == Top(s, t)
    IN  IF f.i > Len(f.due) THEN TickEnd(s, t, f)
        ELSE LET key == f.due[f.i].dedupKey
             IN  IF AlreadySent(s.sentNotifications, key)
                 THEN TickLoop(SetTop(Emit([s EXCEPT !.attempted = @ \cup {key}],
                                           [type |-> "skipped", key |-> key]), t,
                                      [f EXCEPT !.i = @ + 1]), t)
                 ELSE Emit([s EXCEPT !.attempted = @ \cup {key}],
                           [type |-> "sinkCall", task |-> t, key |-> key,
                            inLedger |-> key \in DOMAIN s.sentNotifications,
                            sendAt |-> f.due[f.i].sendAt, cur |-> TimeOf(s.now),
                            date |-> DateOf(s.now)])

\* the cron callback, to its first await
tickStart(s, t) ==
    TickLoop(Push(s, t, [Frame("tick", "sendMessage") EXCEPT
                             !.t0 = s.now, !.cur = TimeOf(s.now),
                             !.due = TickDue(s.notificationQueue, TimeOf(s.now)),
                             !.i = 1]), t)

\* from the end of bot.sendMessage: "ok", "transient" (any other error) or
\* "permanent" (error.response.statusCode 403 or 400)
tickSent(s, t, f, outcome) ==
    LET item == f.due[f.i]
        next == [f EXCEPT !.i = @ + 1]
    IN  IF outcome = "ok"
        THEN TickLoop(SetTop(
                 Emit([s EXCEPT !.sentNotifications =
                                    LedgerSet(@, item.dedupKey, s.now),
                                !.delivered = @ \cup {item.dedupKey}],
                      [type |-> "sinkOk", key |-> item.dedupKey,
                       again |-> item.dedupKey \in s.delivered]), t, next), t)
        ELSE IF outcome = "transient"
        THEN TickLoop(SetTop(s, t, next), t)
        ELSE removeSubscriber(
                 SetTop(s, t, [f EXCEPT !.at = "removeSubscriber",
                                        !.rejected = @ \cup {item.chatId}]),
                 t, item.chatId)

\* from the end of removeSubscriber: the purge of the recipient's items
tickRemoved(s, t, f) ==
    TickLoop(SetTop(WithQueue(s, SelectSeq(s.notificationQueue,
                                           LAMBDA q : q.chatId # f.due[f.i].chatId)),
                    t, [f EXCEPT !.at = "sendMessage", !.i = @ + 1]), t)

\* the catch of the callback's outer try: the error is logged, the tick ends
tickCaught(s, t, f) ==
    Return(Emit(s, [type |-> "tickEnd", task |-> t, cur |-> f.cur, due |-> f.due,
                    rejected |-> f.rejected, caught |-> TRUE, done |-> f.i,
                    cleaned |-> 0, purged |-> FALSE, at |-> s.now,
                    ledger |-> s.sentNotifications]), t, <<>>)

(* --------------------------- resume and throw --------------------------- *)

\* the innermost suspended call of t goes on with v: the outcome of the I/O
\* call it awaits, or the value returned by the call it awaits
Resume(s, t, v) ==
    IF Idle(s, t) THEN s
    ELSE LET f == Top(s, t)
         IN  CASE f.fn = "saveSubscribers" -> saveSubscribersWritten(s, t, f, v)
               [] f.fn = "loadSubscribersCache" ->
                      IF f.at = "readFile" THEN loadSubscribersRead(s, t, f, v)
                      ELSE loadSubscribersSaved(s, t, f)
               [] f.fn = "loadPrayerTimesCache" -> loadPrayerTimesRead(s, t, f, v)
               [] f.fn = "removeSubscriber" -> removeSubscriberCont(s, t, f, v)
               [] f.fn = "buildDailyQueue" -> buildDailyQueueCont(s, t, f, v)
               [] f.fn = "rescheduleUserNotifications" -> rescheduleCont(s, t, f, v)
               [] f.fn \in {"reminder_adjust", "manual_value"} -> handlerCont(s, t, f, v)
               [] f.fn \in {"stop", "start"} -> commandCont(s, t, f, v)
               [] f.fn = "tick" ->
                      IF f.at = "sendMessage" THEN tickSent(s, t, f, v)
                      ELSE tickRemoved(s, t, f)

\* an exception reaches the innermost suspended call of t at its await:
\* the dispatcher's callback and the handlers of /start and /stop catch;
\* anywhere else it goes up, and out of the task as an unhandled rejection
Throw(s, t) ==
    IF Idle(s, t) THEN Emit(s, [type |-> "uncaught", task |-> t])
    ELSE IF Top(s, t).fn = "tick" THEN tickCaught(s, t, Top(s, t))
    ELSE IF Top(s, t).fn \in {"stop", "start"} THEN Pop(s, t)
    ELSE Throw(Pop(s, t), t)

(* ------------------------------- actions ------------------------------- *)

\* every reference to an object, the cache's first, then task by task
TaskOrder == <<"tick1", "tick2", "h1", "h2", "build", "boot">>
Refs(s) ==
    s.subscribersCache.val \o
    Flatten([k \in 1..Len(TaskOrder) |->
        Flatten([i \in 1..Len(s.stacks[TaskOrder[k]]) |-> s.stacks[TaskOrder[k]][i].arr])])

\* q without the repetitions of its elements
RECURSIVE Dedup(_, _)
Dedup(q, seen) ==
    IF q = <<>> THEN <<>>
    ELSE IF Head(q) \in seen THEN Dedup(Tail(q), seen)
    ELSE <<Head(q)>> \o Dedup(Tail(q), seen \cup {Head(q)})

\* Identities are only compared with each other: the objects still referred
\* to are renumbered in the order of their first reference, the others dropped.
Compact(s) ==
    LET uniq == Dedup(Refs(s), {})
        idOf == [o \in Range(uniq) |-> CHOOSE i \in 1..Len(uniq) : uniq[i] = o]
        ren(arr) == [i \in 1..Len(arr) |-> idOf[arr[i]]]
    IN  [s EXCEPT
            !.heap = [n \in 1..Len(uniq) |-> s.heap[uniq[n]]],
            !.subscribersCache.val = ren(@),
            !.stacks = [t \in Tasks |->
                           [i \in 1..Len(s.stacks[t]) |->
                               [s.stacks[t][i] EXCEPT !.arr = ren(@)]]]]

\* the state after a step
Set(s) ==
    \E c \in {Compact(s)} :
        /\ ~c.oom
        /\ now' = c.now
        /\ subsFile' = c.subsFile
        /\ prayFile' = c.prayFile
        /\ heap' = c.heap
        /\ subscribersCache' = c.subscribersCache
        /\ subscribersCacheTimestamp' = c.subscribersCacheTimestamp
        /\ prayerTimesCache' = c.prayerTimesCache
        /\ prayerCacheTimestamp' = c.prayerCacheTimestamp
        /\ notificationQueue' = c.notificationQueue
        /\ sentNotifications' = c.sentNotifications
        /\ stacks' = c.stacks
        /\ delivered' = c.delivered
        /\ scheduled' = c.scheduled
        /\ attempted' = c.attempted
        /\ saved' = c.saved
        /\ removals' = c.removals
        /\ lastBuild' = c.lastBuild
        /\ ev' = c.ev

Awaits(t, fn, at) ==
    /\ stacks[t] # <<>>
    /\ stacks[t][Len(stacks[t])].fn = fn
    /\ stacks[t][Len(stacks[t])].at = at

\* the first idle slot of slots, <<>> when all are busy
FreeSlot(slots) ==
    LET i == FindIndex(slots, LAMBDA t : stacks[t] = <<>>)
    IN  IF i = 0 THEN <<>> ELSE <<slots[i]>>

\* the next clock reading: the next 30-second boundary the run looks at
NextInstant(instants) ==
    CHOOSE n \in instants : n > now /\ \A m \in instants : m > now => n <= m

\* no item is due at a boundary the clock passes over
NothingDueBefore(target) ==
    {i \in 1..Len(notificationQueue) :
        notificationQueue[i].sendAt \in {TimeOf(u) : u \in (now + 1)..(target - 1)}} = {}

\* the daily build's cron does not fire at a boundary the clock passes over
NoBuildBefore(target) ==
    {u \in (now + 1)..(target - 1) : TimeOf(u) = BUILD_MINUTE /\ SecondsBelow30(u)} = {}

\* no I/O call is pending over more than one boundary
NothingPendingBefore(target) ==
    target = now + 1 \/ {t \in Tasks : stacks[t] # <<>>} = {}

\* A 30-second boundary: the clock moves on and the crons fire, first the
\* daily build (at 00:05:00), then the dispatcher tick; each callback runs
\* to its first await.  The 2-second timeout of the startup fires before
\* the second boundary; a third tick does not start while two are suspended.
CanAdvance(instants) ==
    /\ advances < MaxAdvances
    /\ startup # 1
    /\ {n \in instants : n > now} # {}
    /\ NothingDueBefore(NextInstant(instants))
    /\ NoBuildBefore(NextInstant(instants))
    /\ NothingPendingBefore(NextInstant(instants))
    /\ FreeSlot(TickSlots) # <<>>
    /\ (TimeOf(NextInstant(instants)) = BUILD_MINUTE /\ SecondsBelow30(NextInstant(instants)))
           => stacks["build"] = <<>>

Advance(instants) ==
    /\ CanAdvance(instants)
    /\ LET target == NextInstant(instants)
           daily == TimeOf(target) = BUILD_MINUTE /\ SecondsBelow30(target)
           s0 == [Cur EXCEPT !.now = target]
           s1 == IF daily THEN buildDailyQueue(s0, "build") ELSE s0
       IN  Set(tickStart(s1, FreeSlot(TickSlots)[1]))
    /\ startup' = IF startup > 0 THEN startup - 1 ELSE 0
    /\ advances' = advances + 1
    /\ UNCHANGED <<ops, updates, faults>>

\* setTimeout(buildDailyQueue, 2000) fires
BuildAtStartup ==
    /\ startup > 0
    /\ Set(buildDailyQueue(Cur, "boot"))
    /\ startup' = 0
    /\ UNCHANGED <<ops, updates, faults, advances>>

\* a subscriber presses an adjust button or sends a manual value
Handler(fn, chatId, arg) ==
    /\ ops < MaxOps
    /\ FreeSlot(HandlerSlots) # <<>>
    /\ Set(handlerStart(Cur, FreeSlot(HandlerSlots)[1], fn, chatId, arg))
    /\ ops' = ops + 1
    /\ UNCHANGED <<startup, updates, faults, advances>>

\* a chat sends /start or /stop
Command(fn, chatId) ==
    /\ ops < MaxCommands
    /\ FreeSlot(HandlerSlots) # <<>>
    /\ Set(commandStart(Cur, FreeSlot(HandlerSlots)[1], fn, chatId))
    /\ ops' = ops + 1
    /\ UNCHANGED <<startup, updates, faults, advances>>

\* POST /api/update_times replaces prayer_times.json (the cache is not touched)
UpdateTimes(data) ==
    /\ updates < MaxUpdates
    /\ Set([Cur EXCEPT !.prayFile = File(data)])
    /\ updates' = updates + 1
    /\ UNCHANGED <<startup, ops, faults, advances>>

\* the I/O call task t awaits ends
\* a writeFile of subscribers.json is pending, or one has ended since t's
\* readFile was called
WriteOverlaps(t) ==
    \/ \E u \in Tasks : Awaits(u, "saveSubscribers", "writeFile")
    \/ Top(Cur, t).seen # subsFile

\* What a readFile that ran beside a writeFile (open with truncation, write,
\* close) read is not determined: the file as it was at the call, the file
\* as it is at the end, or a file cut short, on which JSON.parse throws.
ReadViews(t) ==
    {Top(Cur, t).seen, subsFile} \cup (IF WriteOverlaps(t) THEN {Corrupt} ELSE {})

SubsReadDone(t, fault) ==
    /\ fault => faults < MaxFaults
    /\ Awaits(t, "loadSubscribersCache", "readFile")
    /\ \E view \in IF fault THEN {subsFile} ELSE ReadViews(t) :
          Set(Resume(SetTop(Cur, t, [Top(Cur, t) EXCEPT !.seen = view]), t, fault))
    /\ faults' = IF fault THEN faults + 1 ELSE faults
    /\ UNCHANGED <<startup, ops, updates, advances>>

SubsWriteDone(t, ok) ==
    /\ ~ok => faults < MaxFaults
    /\ Awaits(t, "saveSubscribers", "writeFile")
    /\ Set(Resume(Cur, t, ok))
    /\ faults' = IF ok THEN faults ELSE faults + 1
    /\ UNCHANGED <<startup, ops, updates, advances>>

PrayReadDone(t, fault) ==
    /\ fault => faults < MaxFaults
    /\ Awaits(t, "loadPrayerTimesCache", "readFile")
    /\ Set(Resume(Cur, t, fault))
    /\ faults' = IF fault THEN faults + 1 ELSE faults
    /\ UNCHANGED <<startup, ops, updates, advances>>

SendDone(t, outcome) ==
    /\ Awaits(t, "tick", "sendMessage")
    /\ Set(Resume(Cur, t, outcome))
    /\ UNCHANGED <<startup, ops, updates, faults, advances>>

(* ---------------------------- specifications ---------------------------- *)

(* -------------------------- the runs explored -------------------------- *)

\* the schedules and subscriber files a run may start from
FullTimes == [fajr |-> 330, dhuhr |-> 780, asr |-> 960, maghrib |-> 1110, isha |-> 1200]
OnlyFajr == [fajr |-> 330, dhuhr |-> -1, asr |-> -1, maghrib |-> -1, isha |-> -1]
Schedules ==
    {<<Day(0, FullTimes), Day(1, FullTimes)>>, <<Day(1, FullTimes)>>}
SubsFiles ==
    {<<ObjEntry(1, 5)>>, <<ObjEntry(1, 5), ObjEntry(2, 5)>>}

\* the buttons pressed and the values typed
Adjustments == {10}
ManualValues == {1}
HandlerChats == {1}

\* the clock readings of a run: both halves of these minutes of day 0
Instants == {1500, 1530, 1550, 1551, 1552, 1558, 1560, 1561}
StartInstants == {1552}

\* the dispatcher's runs: 12:59:00, 13:00:00, 13:00:30, 13:01:00
DispatchInstants == {1558, 1560, 1561, 1562}
DispatchStarts == {1558}

\* the builder's runs: 00:04:30, 00:05:00, 00:05:30
BuildInstants == {9, 10, 11}
BuildStarts == {9}
BuildSubsFiles ==
    {Absent, Corrupt,
     File(<<ObjEntry(1, 10)>>),
     File(<<ObjEntry(1, 0)>>),
     File(<<ObjEntry(1, 5), ObjEntry(2, 30)>>)}
RebuildSubsFiles == {File(<<ObjEntry(1, 10)>>), File(<<ObjEntry(1, 5), ObjEntry(2, 30)>>)}
RebuildPrayFiles ==
    {File(<<Day(0, FullTimes), Day(1, FullTimes)>>), File(<<Day(0, OnlyFajr)>>),
     File(<<Day(1, FullTimes)>>)}

\* the rescheduler's runs: 12:56:00, 12:56:30, 12:57:00 (no item falls due)
ReschedInstants == {1552, 1553, 1554}
ReschedStarts == {1552}

BuildPrayFiles ==
    {Absent, Corrupt,
     File(<<Day(0, FullTimes), Day(1, FullTimes)>>),
     File(<<Day(0, OnlyFajr)>>),
     File(<<Day(1, FullTimes)>>)}

\* subscribers whose reminders of the 13:00 occasion fell due at 12:30
LongLeadSubsFiles == {File(<<ObjEntry(1, 30)>>), File(<<ObjEntry(1, 30), ObjEntry(2, 30)>>)}
TwoDays == File(<<Day(0, FullTimes), Day(1, FullTimes)>>)

\* the evictions' runs: a start at 12:50:00, then 13:00:00, 13:00:30 and
\* 13:01:00, when the caches filled at the start are stale
EvictInstants == {1541, 1560, 1561, 1562}
EvictStarts == {1540}

\* the caches' runs: a start at 12:50:00, then the boundaries at which the
\* caches filled at the start are 4:00 to 5:30 minutes old
StaleInstants == {1541, 1549, 1550, 1551}
StaleStarts == {1540}
\* a replacement of the schedule that has no entry for day 0
StaleUpdates == {<<Day(1, FullTimes)>>}

\* the runs over midnight: a start at 20:30:00 of day 0, then the daily build
\* of day 1 at 00:05:00 and the minute 05:25 of day 1
NextDayInstants == {2461, 2890, 3530}
NextDayStarts == {2460}
NextDayPrayFiles ==
    {TwoDays, File(<<Day(0, FullTimes)>>), File(<<Day(0, FullTimes), Day(1, OnlyFajr)>>)}

\* the ledger's runs: a start at 19:59:30 of day 0, the last occasion at
\* 20:00:00, the daily build of day 1, then 20:05:00 and 20:10:00 of day 1
LedgerInstants == {2400, 2890, 5290, 5300}
LedgerStarts == {2399}

\* the purge's runs: a start at 19:54:30 of day 0, the ticks of 19:55:00 and
\* 20:00:00, the daily build of day 1, then the tick of 20:00:00 of day 1
PurgeInstants == {2390, 2400, 2890, 5280}
PurgeStarts == {2389}
\* maghrib at 19:55, so that sends fall 24 h and 24 h 5 min before the purge
LateTimes == [fajr |-> 330, dhuhr |-> 780, asr |-> 960, maghrib |-> 1195, isha |-> 1200]

\* subscriber files of the legacy format (bare chat ids) and of mixed and
\* damaged shapes, and one that needs no correction
ShapeSubsFiles ==
    {File(<<NumEntry(1), NumEntry(2)>>),
     File(<<BareObjEntry(1), BadEntry>>),
     File(<<ObjEntry(1, 10), NumEntry(2)>>),
     File(<<NumEntry(1), BadEntry>>),
     File(<<ObjEntry(1, 10)>>)}
\* a first occasion at 00:07, less than a lead time after midnight
EarlyTimes == [fajr |-> 7, dhuhr |-> 780, asr |-> 960, maghrib |-> 1110, isha |-> 1200]
ShapePrayFiles == {File(<<Day(0, EarlyTimes)>>), File(<<Day(0, FullTimes)>>)}

\* the subscriptions' runs: a start at 12:59:00, then the tick of 13:00:00
SubsInstants == {1560}
SubsStarts == {1558}
\* the chat that sends /stop and /start
CommandChats == {2}

\* the process has just started, at one of starts, over the given store files
InitWith(starts, subsFiles, prayFiles) ==
    /\ now \in starts
    /\ subsFile \in subsFiles
    /\ prayFile \in prayFiles
    /\ heap = <<>>
    /\ subscribersCache = NoCache
    /\ subscribersCacheTimestamp = 0
    /\ prayerTimesCache = NoCache
    /\ prayerCacheTimestamp = 0
    /\ notificationQueue = <<>>
    /\ sentNotifications = <<>>
    /\ stacks = [t \in Tasks |-> <<>>]
    /\ startup = 2
    /\ ops = 0
    /\ updates = 0
    /\ faults = 0
    /\ advances = 0
    /\ delivered = {}
    /\ scheduled = {}
    /\ attempted = {}
    /\ saved = <<>>
    /\ removals = {}
    /\ lastBuild = <<>>
    /\ ev = <<>>

\* Around the 13:00 occasion, with lead-time changes: builds, reschedules and
\* ticks in any interleaving.
Init == InitWith(StartInstants, {File(d) : d \in SubsFiles}, {File(d) : d \in Schedules})

Next ==
    \/ Advance(Instants)
    \/ BuildAtStartup
    \/ \E c \in HandlerChats, a \in Adjustments : Handler("reminder_adjust", c, a)
    \/ \E c \in HandlerChats, m \in ManualValues : Handler("manual_value", c, m)
    \/ \E t \in Tasks, fault \in BOOLEAN : SubsReadDone(t, fault)
    \/ \E t \in Tasks, ok \in BOOLEAN : SubsWriteDone(t, ok)
    \/ \E t \in Tasks, fault \in BOOLEAN : PrayReadDone(t, fault)
    \/ \E t \in Tasks, o \in {"ok", "transient", "permanent"} : SendDone(t, o)

Spec == Init /\ [][Next]_vars

\* The dispatcher alone, from a start one minute before the 13:00 occasion.
InitDispatch ==
    InitWith(DispatchStarts, {File(d) : d \in SubsFiles}, {File(d) : d \in Schedules})

NextDispatch ==
    \/ Advance(DispatchInstants)
    \/ BuildAtStartup
    \/ \E t \in Tasks, fault \in BOOLEAN : SubsReadDone(t, fault)
    \/ \E t \in Tasks, ok \in BOOLEAN : SubsWriteDone(t, ok)
    \/ \E t \in Tasks, fault \in BOOLEAN : PrayReadDone(t, fault)
    \/ \E t \in Tasks, o \in {"ok", "transient", "permanent"} : SendDone(t, o)

SpecDispatch == InitDispatch /\ [][NextDispatch]_vars

\* The builder, from a start at 00:04:30 (the build at startup and the daily
\* build of 00:05 fall on the same date), over store files of every shape.
InitBuild == InitWith(BuildStarts, BuildSubsFiles, BuildPrayFiles)

NextBuild ==
    \/ Advance(BuildInstants)
    \/ BuildAtStartup
    \/ \E c \in HandlerChats, m \in ManualValues : Handler("manual_value", c, m)
    \/ \E d \in Schedules : UpdateTimes(d)
    \/ \E t \in Tasks, fault \in BOOLEAN : SubsReadDone(t, fault)
    \/ \E t \in Tasks, ok \in BOOLEAN : SubsWriteDone(t, ok)
    \/ \E t \in Tasks, fault \in BOOLEAN : PrayReadDone(t, fault)

SpecBuild == InitBuild /\ [][NextBuild]_vars

\* The builder run twice: the build at startup and the daily build of 00:05,
\* with a lead-time change that may fill the queue before them.
InitRebuild == InitWith(BuildStarts, RebuildSubsFiles, RebuildPrayFiles)

NextRebuild ==
    \/ Advance(BuildInstants)
    \/ BuildAtStartup
    \/ \E c \in HandlerChats, m \in ManualValues : Handler("manual_value", c, m)
    \/ \E t \in Tasks, fault \in BOOLEAN : SubsReadDone(t, fault)
    \/ \E t \in Tasks, ok \in BOOLEAN : SubsWriteDone(t, ok)
    \/ \E t \in Tasks, fault \in BOOLEAN : PrayReadDone(t, fault)

SpecRebuild == InitRebuild /\ [][NextRebuild]_vars

\* The rescheduler, from a start at 12:56 (the 12:55 reminder of the 13:00
\* occasion is past), with the build at startup in any interleaving.
InitResched ==
    InitWith(ReschedStarts, {File(d) : d \in SubsFiles}, {File(d) : d \in Schedules})

NextResched ==
    \/ Advance(ReschedInstants)
    \/ BuildAtStartup
    \/ \E c \in HandlerChats, a \in Adjustments : Handler("reminder_adjust", c, a)
    \/ \E c \in HandlerChats, m \in ManualValues : Handler("manual_value", c, m)
    \/ \E t \in Tasks, fault \in BOOLEAN : SubsReadDone(t, fault)
    \/ \E t \in Tasks, ok \in BOOLEAN : SubsWriteDone(t, ok)
    \/ \E t \in Tasks, fault \in BOOLEAN : PrayReadDone(t, fault)

SpecResched == InitResched /\ [][NextResched]_vars

\* Evictions: two recipients due at 13:00, the subscribers' cache stale.
InitEvict == InitWith(EvictStarts, LongLeadSubsFiles, {TwoDays})

NextEvict ==
    \/ Advance(EvictInstants)
    \/ BuildAtStartup
    \/ \E t \in Tasks, fault \in BOOLEAN : SubsReadDone(t, fault)
    \/ \E t \in Tasks, ok \in BOOLEAN : SubsWriteDone(t, ok)
    \/ \E t \in Tasks, fault \in BOOLEAN : PrayReadDone(t, fault)
    \/ \E t \in Tasks, o \in {"ok", "transient", "permanent"} : SendDone(t, o)

SpecEvict == InitEvict /\ [][NextEvict]_vars

\* The caches around their TTL, with lead-time changes and a replacement of
\* the schedule; no item falls due.
InitStale == InitWith(StaleStarts, LongLeadSubsFiles, {TwoDays})

NextStale ==
    \/ Advance(StaleInstants)
    \/ BuildAtStartup
    \/ \E c \in HandlerChats, a \in Adjustments : Handler("reminder_adjust", c, a)
    \/ \E c \in HandlerChats, m \in ManualValues : Handler("manual_value", c, m)
    \/ \E d \in StaleUpdates : UpdateTimes(d)
    \/ \E t \in Tasks, fault \in BOOLEAN : SubsReadDone(t, fault)
    \/ \E t \in Tasks, ok \in BOOLEAN : SubsWriteDone(t, ok)
    \/ \E t \in Tasks, fault \in BOOLEAN : PrayReadDone(t, fault)

SpecStale == InitStale /\ [][NextStale]_vars

\* Over midnight: the queue built on day 0 meets the daily build of day 1.
InitNextDay == InitWith(NextDayStarts, {File(d) : d \in SubsFiles}, NextDayPrayFiles)

NextNextDay ==
    \/ Advance(NextDayInstants)
    \/ BuildAtStartup
    \/ \E t \in Tasks, fault \in BOOLEAN : SubsReadDone(t, fault)
    \/ \E t \in Tasks, ok \in BOOLEAN : SubsWriteDone(t, ok)
    \/ \E t \in Tasks, fault \in BOOLEAN : PrayReadDone(t, fault)
    \/ \E t \in Tasks, o \in {"ok", "transient", "permanent"} : SendDone(t, o)

SpecNextDay == InitNextDay /\ [][NextNextDay]_vars

\* a step can be taken: a cron or the startup's timeout can fire, or a task
\* awaits an I/O call, which can end
CanStep(instants) ==
    \/ CanAdvance(instants)
    \/ startup > 0
    \/ {t \in Tasks : stacks[t] # <<>>} # {}

\* The ledger over more than 24 hours.  The crons keep firing and every I/O
\* call ends: a step that can be taken is eventually taken.  This is
\* WF_vars(NextLedger), with ENABLED <<NextLedger>>_vars written as
\* CanStep(LedgerInstants).
InitLedger ==
    InitWith(LedgerStarts, {File(d) : d \in SubsFiles}, {File(<<Day(0, FullTimes)>>)})

NextLedger ==
    \/ Advance(LedgerInstants)
    \/ BuildAtStartup
    \/ \E t \in Tasks, fault \in BOOLEAN : SubsReadDone(t, fault)
    \/ \E t \in Tasks, ok \in BOOLEAN : SubsWriteDone(t, ok)
    \/ \E t \in Tasks, fault \in BOOLEAN : PrayReadDone(t, fault)
    \/ \E t \in Tasks, o \in {"ok", "transient", "permanent"} : SendDone(t, o)

FairLedger == []<>(~CanStep(LedgerInstants)) \/ []<><<NextLedger>>_vars

SpecLedger == InitLedger /\ [][NextLedger]_vars /\ FairLedger

\* The purge of the ledger, 24 hours after sends at 19:55:00 and 20:00:00.
InitPurge ==
    InitWith(PurgeStarts, {File(d) : d \in SubsFiles}, {File(<<Day(0, LateTimes)>>)})

NextPurge ==
    \/ Advance(PurgeInstants)
    \/ BuildAtStartup
    \/ \E t \in Tasks, fault \in BOOLEAN : SubsReadDone(t, fault)
    \/ \E t \in Tasks, ok \in BOOLEAN : SubsWriteDone(t, ok)
    \/ \E t \in Tasks, fault \in BOOLEAN : PrayReadDone(t, fault)
    \/ \E t \in Tasks, o \in {"ok", "transient", "permanent"} : SendDone(t, o)

SpecPurge == InitPurge /\ [][NextPurge]_vars

\* Subscriber files and schedules of unusual shapes, from a start at
\* 00:04:30: the loads that migrate and the builds.
InitShapes == InitWith(BuildStarts, ShapeSubsFiles, ShapePrayFiles)

NextShapes ==
    \/ Advance(BuildInstants)
    \/ BuildAtStartup
    \/ \E t \in Tasks, fault \in BOOLEAN : SubsReadDone(t, fault)
    \/ \E t \in Tasks, ok \in BOOLEAN : SubsWriteDone(t, ok)
    \/ \E t \in Tasks, fault \in BOOLEAN : PrayReadDone(t, fault)

SpecShapes == InitShapes /\ [][NextShapes]_vars

\* Subscriptions: two subscribers due at 13:00, one of which sends /stop
\* and /start while the other changes its lead time.
InitSubs ==
    InitWith(SubsStarts, {File(<<ObjEntry(1, 5), ObjEntry(2, 5)>>)}, {TwoDays})

NextSubs ==
    \/ Advance(SubsInstants)
    \/ BuildAtStartup
    \/ \E c \in HandlerChats, a \in Adjustments : Handler("reminder_adjust", c, a)
    \/ \E c \in CommandChats : Command("stop", c)
    \/ \E c \in CommandChats : Command("start", c)
    \/ \E t \in Tasks, fault \in BOOLEAN : SubsReadDone(t, fault)
    \/ \E t \in Tasks, ok \in BOOLEAN : SubsWriteDone(t, ok)
    \/ \E t \in Tasks, fault \in BOOLEAN : PrayReadDone(t, fault)
    \/ \E t \in Tasks, o \in {"ok", "transient", "permanent"} : SendDone(t, o)

SpecSubs == InitSubs /\ [][NextSubs]_vars

\* the steps that do not depend on the message sink: the timers fire and
\* the calls of the file system end
StepsButSink(instants) ==
    \/ Advance(instants)
    \/ BuildAtStartup
    \/ \E t \in Tasks, fault \in BOOLEAN : SubsReadDone(t, fault)
    \/ \E t \in Tasks, ok \in BOOLEAN : SubsWriteDone(t, ok)
    \/ \E t \in Tasks, fault \in BOOLEAN : PrayReadDone(t, fault)

\* such a step can be taken
CanStepButSink(instants) ==
    \/ CanAdvance(instants)
    \/ startup > 0
    \/ \E t \in Tasks : stacks[t] # <<>> /\ ~Awaits(t, "tick", "sendMessage")

\* The dispatcher over a message sink that may leave a call unanswered: the
\* timers fire and the file system answers (weak fairness of StepsButSink,
\* with ENABLED <<StepsButSink>>_vars written as CanStepButSink); nothing
\* is assumed of bot.sendMessage.
FairHang ==
    /\ WF_vars(BuildAtStartup)
    /\ []<>(~CanStepButSink(DispatchInstants)) \/ []<><<StepsButSink(DispatchInstants)>>_vars

SpecHang == InitDispatch /\ [][NextDispatch]_vars /\ FairHang

(* -------------------------------- claims -------------------------------- *)

Events(type) == {i \in 1..Len(ev) : ev[i].type = type}

\* the number of occurrences of x in q
Count(q, x) == Cardinality({i \in 1..Len(q) : q[i] = x})

\* the chats a call of loadSubscribersCache made now would return
LoadedChats ==
    IF subscribersCache.present /\ now - subscribersCacheTimestamp < CACHE_TTL
    THEN {heap[o].chatId : o \in Range(subscribersCache.val)}
    ELSE IF subsFile.state = "ok"
    THEN {e.chatId : e \in Range(Normalize(subsFile.data).objs)}
    ELSE {}

\* C1: the message sink never accepts the same dedupKey twice.
C1_DeliveredAtMostOnce == \A i \in Events("sinkOk") : ~ev[i].again

\* C2: a tick that comes to an item whose dedupKey is in the ledger does
\* not call the message sink for it: every call of the sink is for a key
\* that is not in the ledger at the call.
C2_LedgerKeySkipped == \A i \in Events("sinkCall") : ~ev[i].inLedger

\* a tick has skipped an item because its key was in the ledger
C2_Witness == Events("skipped") # {}

\* C3: no two items of the queue have the same dedupKey.
C3_UniqueKeys ==
    \A i, j \in 1..Len(notificationQueue) :
        i # j => notificationQueue[i].dedupKey # notificationQueue[j].dedupKey

\* C4: for each recipient and occasion the queue holds at most one
\* at-occasion item and at most one reminder item.
C4_OnePerKind ==
    \A i, j \in 1..Len(notificationQueue) :
        LET a == notificationQueue[i]
            b == notificationQueue[j]
        IN  (/\ i # j
             /\ a.chatId = b.chatId
             /\ a.dedupKey.date = b.dedupKey.date
             /\ a.dedupKey.prayer = b.dedupKey.prayer)
            => IsReminder(a) # IsReminder(b)

\* C5: when a tick in which a delivery to R was permanently rejected has
\* finished, the queue holds no item for R and a load of the subscribers
\* does not return R (stated for the runs in which no store call fails).
C5_RejectedIsGone ==
    faults = 0 =>
    \A i \in Events("tickEnd") :
        \A r \in ev[i].rejected :
            /\ \A k \in 1..Len(notificationQueue) : notificationQueue[k].chatId # r
            /\ r \notin LoadedChats

\* C6: after a build that ran to its end, every subscriber with a stored
\* lead time m > 0 has, for every occasion at T, an at-occasion item at T
\* and a reminder item at T - m; a subscriber with lead time 0 has no
\* reminder item.
C6_BuildItems ==
    \A i \in Events("built") :
        LET run == ev[i].run
        IN  run.outcome = "ok" =>
            \A u \in 1..Len(run.subs), k \in 1..Len(prayerOrder) :
                LET sub == run.subs[u]
                    T == run.tp[prayerOrder[k]]
                IN  /\ (sub.mins > 0 /\ T # Undefined) =>
                        /\ \E x \in Range(notificationQueue) :
                              x.chatId = sub.chatId /\ ~IsReminder(x) /\ x.sendAt = T
                        /\ \E x \in Range(notificationQueue) :
                              /\ x.chatId = sub.chatId
                              /\ IsReminder(x)
                              /\ x.sendAt = T - sub.mins
                    /\ sub.mins = 0 =>
                        \A x \in Range(notificationQueue) :
                            x.chatId = sub.chatId => ~IsReminder(x)

\* C7: a build that follows a build of the same date, schedule and
\* subscribers, with no other write of the queue in between, leaves the
\* queue the first one left.
C7_BuildTwice ==
    \A i \in Events("built") :
        LET run == ev[i].run
            before == ev[i].before
        IN  (/\ before # <<>>
             /\ before[1].date = run.date
             /\ before[1].tp = run.tp
             /\ before[1].subs = run.subs)
            => run.queue = before[1].queue

\* two builds in succession over the same inputs, the first of which found
\* a queue that was not empty, and which left items
C7_Witness ==
    \E i \in Events("built") :
        /\ ev[i].before # <<>>
        /\ ev[i].before[1].date = ev[i].run.date
        /\ ev[i].before[1].tp = ev[i].run.tp
        /\ ev[i].before[1].subs = ev[i].run.subs
        /\ ev[i].before[1].prior # <<>>
        /\ ev[i].run.outcome = "ok"
        /\ ev[i].run.queue # <<>>

\* C8 as stated (its second half): when a reschedule for R with new lead
\* time m' has run at time now, for every occasion at T > now a reminder for
\* R with sendAt = T - m' is in the queue if and only if T - m' > now.
C8_ReminderIffAhead ==
    \A i \in Events("rescheduled") :
        LET e == ev[i]
        IN  e.found =>
            \A k \in 1..Len(prayerOrder) :
                LET T == e.tp[prayerOrder[k]]
                IN  T > e.cur =>
                    ((\E x \in Range(notificationQueue) :
                        x.chatId = e.chat /\ IsReminder(x) /\ x.sendAt = T - e.mins)
                     <=> T - e.mins > e.cur)

\* C8 as amended: the first step of a reschedule for R at time now removes
\* every reminder of R with sendAt > now and nothing else; its second step
\* inserts, for every occasion at T > now, the reminder for R with
\* sendAt = T - m' if and only if T - m' > now, and inserts nothing else.
C8_RescheduleSteps ==
    /\ \A i \in Events("filtered") :
          LET e == ev[i]
              gone(x) == x.chatId = e.chat /\ IsReminder(x) /\ x.sendAt > e.cur
          IN  /\ \A x \in Range(e.after) : ~gone(x)
              /\ \A x \in Range(e.before) :
                    ~gone(x) => Count(e.after, x) = Count(e.before, x)
    /\ \A i \in Events("rescheduled") :
          LET e == ev[i]
              reminder(k) == Item(e.chat, e.tp[prayerOrder[k]] - e.mins,
                                  DedupKey(e.date, prayerOrder[k], e.chat, e.mins))
              ahead == {k \in 1..Len(prayerOrder) :
                          e.tp[prayerOrder[k]] > e.cur
                          /\ e.tp[prayerOrder[k]] - e.mins > e.cur}
          IN  e.found =>
              /\ Len(e.after) = Len(e.before) + Cardinality(ahead)
              /\ SubSeq(e.after, 1, Len(e.before)) = e.before
              /\ \A k \in 1..Len(prayerOrder) :
                    Count(e.after, reminder(k)) - Count(e.before, reminder(k))
                        = IF k \in ahead THEN 1 ELSE 0

\* a reschedule that removed a reminder, inserted one, and left out the
\* reminder of an occasion still ahead because its time had passed
C8_Witness ==
    /\ \E i \in Events("filtered") : Len(ev[i].after) < Len(ev[i].before)
    /\ \E i \in Events("rescheduled") :
          /\ ev[i].found
          /\ Len(ev[i].after) > Len(ev[i].before)
          /\ \E k \in 1..Len(prayerOrder) :
                /\ ev[i].tp[prayerOrder[k]] > ev[i].cur
                /\ ev[i].tp[prayerOrder[k]] - ev[i].mins <= ev[i].cur

\* C9: over a schedule entry that defines k of the five occasions and one
\* subscriber with lead time m > 0, the build completes and leaves exactly
\* 2k items: for each defined occasion the at-occasion item and the reminder.
C9_PartialSchedule ==
    \A i \in Events("built") :
        LET run == ev[i].run
            defined == {k \in 1..Len(prayerOrder) : run.tp[prayerOrder[k]] # Undefined}
        IN  (/\ run.outcome # "noSchedule"
             /\ Len(run.subs) = 1
             /\ run.subs[1].mins > 0)
            => /\ run.outcome = "ok"
               /\ Len(notificationQueue) = 2 * Cardinality(defined)
               /\ \A x \in Range(notificationQueue) :
                     \E k \in defined : x.dedupKey.prayer = prayerOrder[k]

\* C10: at most one dispatcher tick is executing at any time.
C10_OneTickAtATime == ~(stacks["tick1"] # <<>> /\ stacks["tick2"] # <<>>)

\* C11: the sink is called for an item only by a tick of the item's own
\* minute: the tick's clock minute is the item's sendAt and the tick's date
\* is the date the item was built for.
C11_OnlyItsMinute ==
    \A i \in Events("sinkCall") :
        /\ ev[i].sendAt = ev[i].cur
        /\ ev[i].key.date = ev[i].date

\* C12: once the minute of an item has passed and no tick is executing, an
\* item that a build left with its sendAt still ahead, and whose recipient is
\* still subscribed, has had its delivery attempted (no lead time changes
\* in these runs).
C12_EveryItemAttempted ==
    (stacks["tick1"] = <<>> /\ stacks["tick2"] = <<>>) =>
    \A x \in scheduled :
        (/\ DateOf(now) = x.dedupKey.date
         /\ TimeOf(now) > x.sendAt
         /\ x.chatId \in LoadedChats)
        => x.dedupKey \in attempted

\* C13: a load reads the backing store if and only if no value is cached or
\* the cached value is CACHE_TTL old or older; otherwise it is served from
\* the cache.
C13_ReadIffStale ==
    \A i \in Events("load") :
        ev[i].read <=> ~(ev[i].present /\ ev[i].age < CACHE_TTL)

\* in one step, a load served from the cache and a load that read the store
\* because its cached value was exactly CACHE_TTL old
C13_Witness ==
    /\ \E i \in Events("load") : ~ev[i].read /\ ev[i].present
    /\ \E i \in Events("load") : ev[i].read /\ ev[i].present /\ ev[i].age = CACHE_TTL

\* the ledger entries older than 24 hours
OldEntries == {k \in DOMAIN sentNotifications : sentNotifications[k] < now - ONE_DAY}

\* C14: while the ticks keep running, a ledger that holds an entry older
\* than 24 hours comes to hold none.
C14_OldEntriesGo == (OldEntries # {}) ~> (OldEntries = {})

\* a tick, with nothing due, has removed an entry older than 24 hours
C14_Witness ==
    \E i \in Events("tickEnd") : ev[i].cleaned > 0 /\ ev[i].due = <<>>

\* C15: a reschedule for R that finds no schedule for today leaves in the
\* queue every item the queue held when it was called.
C15_NoScheduleNoChange ==
    \A i \in Events("rescheduled") :
        ~ev[i].found =>
            \A x \in Range(ev[i].prior) : x \in Range(notificationQueue)

\* C16: after a build that could not obtain today's schedule (no entry for
\* the date, no file, or a failed read) the queue is empty.
C16_NoScheduleEmptyQueue ==
    /\ \A i \in Events("built") :
          ev[i].run.outcome = "noSchedule" => notificationQueue = <<>>
    /\ \A i \in Events("loadFailed") :
          (ev[i].store = "prayerTimes" /\ ev[i].task \in {"build", "boot"})
          => notificationQueue = <<>>

\* C17: no load of the schedule or of the subscribers raises the error of
\* its read.
C17_ReadFaultsAbsorbed == Events("loadFailed") = {}

\* C18: the first step of a reschedule for R at time now keeps, in their
\* order, all items but the reminders of R with sendAt > now; the second step
\* keeps the whole queue and appends only reminders of R with sendAt > now.
C18_RescheduleFrame ==
    /\ \A i \in Events("filtered") :
          ev[i].after = SelectSeq(ev[i].before,
                            LAMBDA x : ~(/\ x.chatId = ev[i].chat
                                         /\ x.dedupKey.offset # 0
                                         /\ x.sendAt > ev[i].cur))
    /\ \A i \in Events("rescheduled") :
          /\ Len(ev[i].after) >= Len(ev[i].before)
          /\ SubSeq(ev[i].after, 1, Len(ev[i].before)) = ev[i].before
          /\ \A k \in (Len(ev[i].before) + 1)..Len(ev[i].after) :
                /\ ev[i].after[k].chatId = ev[i].chat
                /\ ev[i].after[k].dedupKey.offset # 0
                /\ ev[i].after[k].sendAt > ev[i].cur

\* a reschedule whose first step removed a reminder of R from a queue that
\* held an item of another recipient, an at-occasion item of R and a past
\* reminder of R, and whose second step appended a reminder
C18_Witness ==
    /\ \E i \in Events("filtered") :
          /\ Len(ev[i].after) < Len(ev[i].before)
          /\ \E x \in Range(ev[i].before) : x.chatId # ev[i].chat
          /\ \E x \in Range(ev[i].before) :
                x.chatId = ev[i].chat /\ x.dedupKey.offset = 0
          /\ \E x \in Range(ev[i].before) :
                x.chatId = ev[i].chat /\ x.dedupKey.offset # 0 /\ x.sendAt <= ev[i].cur
    /\ \E i \in Events("rescheduled") : Len(ev[i].after) > Len(ev[i].before)

\* C19: when a tick that selected due items ends, however it ends, the
\* queue holds no item whose sendAt is the tick's minute.
C19_DueItemsGone ==
    \A i \in Events("tickEnd") :
        ev[i].due # <<>> =>
            \A x \in Range(notificationQueue) : x.sendAt # ev[i].cur

\* C20: a tick that ends has come to every item it selected as due.
C20_EveryDueItemReached ==
    \A i \in Events("tickEnd") : ev[i].done = Len(ev[i].due)

\* C25: the queue a build leaves is ordered by sendAt: of two consecutive
\* items the first one's sendAt is not later than the second one's.
C25_QueueSorted ==
    \A i \in Events("built") :
        ev[i].run.outcome = "ok" =>
            \A k \in 1..(Len(notificationQueue) - 1) :
                notificationQueue[k].sendAt <= notificationQueue[k + 1].sendAt

\* the reminders with sendAt later than cur that a build over the schedule tp
\* leaves for a subscriber with the stored lead time mins
FreshReminders(chatId, mins, date, tp, cur) ==
    {x \in Range(BuildQueue(<<[chatId |-> chatId, mins |-> mins]>>, date, tp)) :
        IsReminder(x) /\ x.sendAt > cur}

\* C28: when a reschedule for R has run at time now, the reminders of R in
\* the queue with sendAt later than now are the ones a build run at the same
\* moment over the same schedule and the same stored settings would leave.
C28_RescheduleAsBuild ==
    \A i \in Events("rescheduled") :
        LET e == ev[i]
        IN  (e.found /\ ~BuildThrows(<<[chatId |-> e.chat, mins |-> e.mins]>>, e.tp)) =>
            {x \in Range(notificationQueue) :
                x.chatId = e.chat /\ IsReminder(x) /\ x.sendAt > e.cur}
            = FreshReminders(e.chat, e.mins, e.date, e.tp, e.cur)

\* the subscribers the cache holds, and the subscribers the store holds
CachedSubs == [i \in 1..Len(subscribersCache.val) |-> heap[subscribersCache.val[i]]]
StoredSubs == IF subsFile.state = "ok" THEN Normalize(subsFile.data).objs ELSE <<>>

\* C29: when the write of saveSubscribers has failed, a load served from
\* the cache returns the subscribers as they are stored, and a reschedule
\* that follows uses the stored lead time.
C29_FailedSaveNotVisible ==
    (\E i \in Events("saved") : ~ev[i].ok) =>
        /\ CacheFresh(subscribersCache, subscribersCacheTimestamp, now)
               => CachedSubs = StoredSubs
        /\ \A i \in Events("rescheduled") :
               \E k \in 1..Len(StoredSubs) :
                   StoredSubs[k].chatId = ev[i].chat /\ StoredSubs[k].mins = ev[i].mins

\* C23: a purge of the ledger removes the entries recorded more than 24
\* hours before it and keeps every other entry, with its timestamp.
C23_PurgeExact ==
    \A i \in Events("tickEnd") :
        ev[i].purged =>
            sentNotifications =
                [k \in {x \in DOMAIN ev[i].ledger : ev[i].at - ev[i].ledger[x] <= ONE_DAY}
                    |-> ev[i].ledger[k]]

\* a purge that removed an entry and kept an entry recorded exactly 24
\* hours before it
C23_Witness ==
    \E i \in Events("tickEnd") :
        /\ ev[i].purged
        /\ \E x \in DOMAIN ev[i].ledger : x \notin DOMAIN sentNotifications
        /\ \E x \in DOMAIN sentNotifications : ev[i].at - sentNotifications[x] = ONE_DAY

\* C24: a dispatcher tick that has started eventually finishes, whether or
\* not the message sink answers its calls.
C24_TickFinishes ==
    /\ (stacks["tick1"] # <<>>) ~> (stacks["tick1"] = <<>>)
    /\ (stacks["tick2"] # <<>>) ~> (stacks["tick2"] = <<>>)

\* an entry of the stored array as the migration is to return it
Migrated(e) ==
    IF e.kind = "num" \/ ~e.hasSettings
    THEN [chatId |-> e.chatId, mins |-> DEFAULT_REMINDER]
    ELSE [chatId |-> e.chatId, mins |-> e.mins]

\* C22: a load that read a stored array returns, in their order, its bare
\* identifiers wrapped with the default settings, its records without
\* settings with the default settings and its other records as they are,
\* without the entries that have no identifier; if that is not the stored
\* array, the store holds the returned array when the load returns.
C22_MigrateOnRead ==
    \A i \in Events("loaded") :
        LET e == ev[i]
            kept == SelectSeq(e.data, LAMBDA x : x.kind # "bad")
            expected == [k \in 1..Len(kept) |-> Migrated(kept[k])]
            corrected == \E k \in 1..Len(e.data) :
                            e.data[k].kind # "obj" \/ ~e.data[k].hasSettings
        IN  /\ e.returned = expected
            /\ corrected =>
                  e.file = File([k \in 1..Len(expected) |->
                                   ObjEntry(expected[k].chatId, expected[k].mins)])

\* C27: every reminder a build or a reschedule creates has a sendAt
\* earlier, on the same day, than the time of its occasion.
C27_ReminderBeforeOccasion ==
    /\ \A i \in Events("built") :
          ev[i].run.outcome = "ok" =>
              \A x \in Range(ev[i].run.queue) :
                  IsReminder(x) => x.sendAt < ev[i].run.tp[x.dedupKey.prayer]
    /\ \A i \in Events("rescheduled") :
          \A k \in (Len(ev[i].before) + 1)..Len(ev[i].after) :
              ev[i].after[k].sendAt < ev[i].tp[ev[i].after[k].dedupKey.prayer]

\* a call of saveSubscribers has not returned
SavePending ==
    \E t \in Tasks : \E i \in 1..Len(stacks[t]) : stacks[t][i].fn = "saveSubscribers"

\* C21: once a save has written the subscribers and while no other save is
\* under way, a load served from the cache returns what was written (stated
\* for the runs in which no store call fails).
C21_LoadSeesLastSave ==
    (saved # <<>> /\ faults = 0 /\ ~SavePending
     /\ CacheFresh(subscribersCache, subscribersCacheTimestamp, now))
    => CachedSubs = Normalize(saved[1]).objs

\* C26: the message sink is not called for a recipient whose /stop has
\* removed it and who has not sent /start since.
C26_NoSendAfterStop ==
    \A i \in Events("sinkCall") :
        \A r \in removals : r.by = "stop" => r.chat # ev[i].key.chatId

\* C30: a chat that a removal has taken out of subscribers.json, and that
\* has not sent /start since, is not in subscribers.json and is not returned
\* by a load.
C30_RemovedStaysRemoved ==
    \A r \in removals :
        r.stored =>
            /\ \A k \in 1..Len(StoredSubs) : StoredSubs[k].chatId # r.chat
            /\ r.chat \notin LoadedChats

====
